---------------------------- MODULE Spec2Model ----------------------------
(***************************************************************************)
(* Model of tools/sia_public_audit_demo_003.py: the evidence-coverage      *)
(* classifier, the score aggregation, the unanswerable-question list and   *)
(* the derived metrics, run on an event list that the environment edits    *)
(* between runs.                                                           *)
(*                                                                         *)
(* Representation:                                                         *)
(*  - Optional[x] is <<>> (None) or <<x>>.                                 *)
(*  - t_rel_s is a float in the source; here it is an integer number of    *)
(*    hundredths of a second (-5.6 s is -560), so minima and differences   *)
(*    are exact.                                                           *)
(*  - float scores are exact rationals [n, d]; the arithmetic returns     *)
(*    lowest terms; weights are hundredths (0.15 is 15/100).               *)
(*  - event types are strings; str.startswith is a character-wise prefix   *)
(*    test.                                                                *)
(*  - Event.actor and Event.source are never read by the engine and are    *)
(*    left out; Event.data keeps the two keys derive_metrics reads.        *)
(*  - the icon/title/why fields of a coverage entry are presentation text  *)
(*    copied from constant tables and are left out.                        *)
(***************************************************************************)
EXTENDS Integers, Sequences, FiniteSets, TLC

VARIABLES events, coverage, exc, a_score, c_score, r_core, r_supply,
          q_missing, metrics, edits,
          weight_table, r_weighted
          \* weight_table, r_weighted: the weights and the result of a direct call
          \* score_weighted(coverage, weight_table)

vars == <<events, coverage, exc, a_score, c_score, r_core, r_supply,
          q_missing, metrics, edits,
          weight_table, r_weighted>>

-----------------------------------------------------------------------------
(* Optional values *)

None == <<>>

Some(v) == <<v>>

-----------------------------------------------------------------------------
(* Exact rationals standing for the source's floats *)

RECURSIVE GCD(_, _)
GCD(a, b) == IF b = 0 THEN a ELSE GCD(b, a % b)

Abs(n) == IF n < 0 THEN -n ELSE n

Rat(n, d) ==
    LET g == GCD(Abs(n), Abs(d))
        s == IF d < 0 THEN -1 ELSE 1
    IN  [n |-> (s * n) \div g, d |-> (s * d) \div g]

RatAdd(x, y) == Rat(x.n * y.d + y.n * x.d, x.d * y.d)

RatMul(x, y) == Rat(x.n * y.n, x.d * y.d)

RatDiv(x, y) == Rat(x.n * y.d, x.d * y.n)

RatGt(x, y) == x.n * y.d > y.n * x.d

Zero == [n |-> 0, d |-> 1]

One == [n |-> 1, d |-> 1]

-----------------------------------------------------------------------------
(* Constant tables *)

STATUS_SCORE ==
    [missing |-> [n |-> 0, d |-> 1],
     partial |-> [n |-> 1, d |-> 2],
     ok |-> [n |-> 1, d |-> 1]]

\* the keys of EVIDENCE_UNITS, in declaration order
EVIDENCE_UNITS ==
    << "time.base",
       "authority.mode_timeline",
       "perception.object_timeline",
       "prediction.risk_timeline",
       "planning.choice_timeline",
       "control.command_timeline",
       "human.input_attention",
       "software.version_manifest",
       "integrity.tamper_evidence" >>

\* variant: the critical score taken over all units
CRITICAL_UNITS_all == EVIDENCE_UNITS

CRITICAL_UNITS ==
    << "planning.choice_timeline",
       "control.command_timeline",
       "software.version_manifest",
       "integrity.tamper_evidence" >>

\* an ordered dict: a sequence of <<key, weight>>
CORE_WEIGHTS ==
    << <<"time.base", [n |-> 15, d |-> 100]>>,
       <<"authority.mode_timeline", [n |-> 25, d |-> 100]>>,
       <<"perception.object_timeline", [n |-> 15, d |-> 100]>>,
       <<"prediction.risk_timeline", [n |-> 10, d |-> 100]>>,
       <<"planning.choice_timeline", [n |-> 15, d |-> 100]>>,
       <<"control.command_timeline", [n |-> 15, d |-> 100]>>,
       <<"human.input_attention", [n |-> 5, d |-> 100]>> >>

SUPPLY_WEIGHTS ==
    << <<"software.version_manifest", [n |-> 70, d |-> 100]>>,
       <<"integrity.tamper_evidence", [n |-> 30, d |-> 100]>> >>

-----------------------------------------------------------------------------
(* Events *)

Event(t, type, data) == [t_rel_s |-> t, type |-> type, data |-> data]

NoData == <<>>

\* dict.get(key): None when the key is absent
DictGet(d, k) == IF k \in DOMAIN d THEN d[k] ELSE None

\* str.startswith(prefix)
StartsWith(s, prefix) ==
    /\ Len(s) >= Len(prefix)
    /\ SubSeq(s, 1, Len(prefix)) = prefix

\* str.startswith(tuple of prefixes)
StartsWithAny(s, prefixes) ==
    \E j \in 1..Len(prefixes) : StartsWith(s, prefixes[j])

\* the events of sample_uber_atg_ntsb_2018, after dict_to_events
sample_uber_atg_ntsb_2018 ==
    << Event(None, "time.base", NoData),
       Event(None, "authority.mode", NoData),
       Event(None, "vehicle.state", NoData),
       Event(Some(-560), "perception.detect", NoData),
       Event(None, "perception.classification", NoData),
       Event(None, "prediction.path", NoData),
       Event(None, "risk.collision_imminent", NoData),
       Event(None, "control.aeb_policy", NoData),
       Event(Some(-100), "human.attention", NoData),
       Event(Some(-2), "human.control_input", NoData),
       Event(Some(0), "impact", [speed_mph |-> Some(39), speed_kmh |-> None]) >>

-----------------------------------------------------------------------------
(* Utilities *)

has_event(evs, prefix) ==
    \E i \in 1..Len(evs) : StartsWith(evs[i].type, prefix)

has_event_type(evs, event_type) ==
    \E i \in 1..Len(evs) : evs[i].type = event_type

\* variant: all() over the matching events in place of any()
has_timed_event_all(evs, prefix) ==
    /\ \E i \in 1..Len(evs) : StartsWith(evs[i].type, prefix)
    /\ \A i \in 1..Len(evs) :
          StartsWith(evs[i].type, prefix) => evs[i].t_rel_s # None

has_timed_event(evs, prefix) ==
    \E i \in 1..Len(evs) :
        StartsWith(evs[i].type, prefix) /\ evs[i].t_rel_s # None

count_timed_events(evs) ==
    Cardinality({i \in 1..Len(evs) : evs[i].t_rel_s # None})

RECURSIVE MinOf(_)
MinOf(ts) ==
    IF Len(ts) = 1 THEN ts[1]
    ELSE LET m == MinOf(Tail(ts))
         IN  IF ts[1] <= m THEN ts[1] ELSE m

\* variant: 0.0 in place of None when no time matches
find_earliest_time_zero(evs, prefix) ==
    LET sel == SelectSeq(evs, LAMBDA e :
                   StartsWith(e.type, prefix) /\ e.t_rel_s # None)
        ts == [i \in 1..Len(sel) |-> sel[i].t_rel_s[1]]
    IN  IF Len(ts) > 0 THEN Some(MinOf(ts)) ELSE Some(0)

\* variant: the time of the first matching timed event
find_earliest_time_first(evs, prefix) ==
    LET sel == SelectSeq(evs, LAMBDA e :
                   StartsWith(e.type, prefix) /\ e.t_rel_s # None)
    IN  IF Len(sel) > 0 THEN Some(sel[1].t_rel_s[1]) ELSE None

find_earliest_time(evs, prefix) ==
    LET sel == SelectSeq(evs, LAMBDA e :
                   StartsWith(e.type, prefix) /\ e.t_rel_s # None)
        ts == [i \in 1..Len(sel) |-> sel[i].t_rel_s[1]]
    IN  IF Len(ts) > 0 THEN Some(MinOf(ts)) ELSE None

find_event(evs, event_type) ==
    LET idx == {i \in 1..Len(evs) : evs[i].type = event_type}
    IN  IF idx = {} THEN None
        ELSE Some(evs[CHOOSE i \in idx : \A j \in idx : i <= j])

-----------------------------------------------------------------------------
(* compute_evidence_coverage.  A classifier state is the coverage map built  *)
(* so far and the exception raised, if any ("none" when the run goes on).    *)

NoCoverage == [cov |-> <<>>, exc |-> "none"]

Units == {EVIDENCE_UNITS[i] : i \in 1..Len(EVIDENCE_UNITS)}

\* variant: every status but missing scores 1.0
mark_flat(st, key, status, evidence) ==
    IF st.exc # "none" THEN st
    ELSE IF status \notin DOMAIN STATUS_SCORE
         THEN [st EXCEPT !.exc = "ValueError"]
    ELSE IF key \notin Units
         THEN [st EXCEPT !.exc = "KeyError"]
    ELSE [st EXCEPT !.cov =
             (key :> [status |-> status,
                      score |-> IF status = "missing" THEN Zero ELSE One,
                      evidence |-> evidence]) @@ st.cov]

\* the nested function mark(key, status, evidence)
mark(st, key, status, evidence) ==
    IF st.exc # "none" THEN st
    ELSE IF status \notin DOMAIN STATUS_SCORE
         THEN [st EXCEPT !.exc = "ValueError"]
    ELSE IF key \notin Units
         THEN [st EXCEPT !.exc = "KeyError"]
    ELSE [st EXCEPT !.cov =
             (key :> [status |-> status,
                      score |-> STATUS_SCORE[status],
                      evidence |-> evidence]) @@ st.cov]

mark_time_base(st, evs) ==
    LET has_impact == has_event_type(evs, "impact")
        timed_count == count_timed_events(evs)
    IN  IF has_impact /\ timed_count >= 2
        THEN mark(st, "time.base", "ok",
                  "impact + timed events (" \o ToString(timed_count)
                      \o ") present")
        ELSE IF has_impact
        THEN mark(st, "time.base", "partial",
                  "impact present but almost no timed context")
        ELSE mark(st, "time.base", "missing", "impact missing")

mark_authority_mode_timeline(st, evs) ==
    IF has_timed_event(evs, "authority.mode")
    THEN mark(st, "authority.mode_timeline", "ok",
              "authority.mode with timestamp present")
    ELSE IF has_event(evs, "authority.mode")
    THEN mark(st, "authority.mode_timeline", "partial",
              "authority.mode present (no timestamp)")
    ELSE mark(st, "authority.mode_timeline", "missing", "missing")

\* variant: ok also requires a timed classification
mark_perception_object_timeline_timed_class(st, evs) ==
    LET has_detect == has_event(evs, "perception.detect")
        has_class == has_event(evs, "perception.classification")
        has_detect_t == has_timed_event(evs, "perception.detect")
        has_class_t == has_timed_event(evs, "perception.classification")
    IN  IF has_detect /\ has_class /\ has_detect_t /\ has_class_t
        THEN mark(st, "perception.object_timeline", "ok",
                  "detect(timed) + classification present")
        ELSE IF has_detect \/ has_class
        THEN mark(st, "perception.object_timeline", "partial",
                  "perception present but incomplete timeline")
        ELSE mark(st, "perception.object_timeline", "missing", "missing")

mark_perception_object_timeline(st, evs) ==
    LET has_detect == has_event(evs, "perception.detect")
        has_class == has_event(evs, "perception.classification")
        has_detect_t == has_timed_event(evs, "perception.detect")
    IN  IF has_detect /\ has_class /\ has_detect_t
        THEN mark(st, "perception.object_timeline", "ok",
                  "detect(timed) + classification present")
        ELSE IF has_detect \/ has_class
        THEN mark(st, "perception.object_timeline", "partial",
                  "perception present but incomplete timeline")
        ELSE mark(st, "perception.object_timeline", "missing", "missing")

mark_prediction_risk_timeline(st, evs) ==
    LET has_pred_or_risk ==
            has_event(evs, "prediction.") \/ has_event(evs, "risk.")
        has_timed ==
            has_timed_event(evs, "prediction.") \/ has_timed_event(evs, "risk.")
    IN  IF has_pred_or_risk /\ has_timed
        THEN mark(st, "prediction.risk_timeline", "ok",
                  "prediction/risk with timestamp present")
        ELSE IF has_pred_or_risk
        THEN mark(st, "prediction.risk_timeline", "partial",
                  "prediction/risk present (no timestamp)")
        ELSE mark(st, "prediction.risk_timeline", "missing", "missing")

mark_planning_choice_timeline(st, evs) ==
    IF has_event(evs, "planning.")
    THEN IF has_timed_event(evs, "planning.")
         THEN mark(st, "planning.choice_timeline", "ok",
                   "planning.* with timestamp present")
         ELSE mark(st, "planning.choice_timeline", "partial",
                   "planning.* present (no timestamp)")
    ELSE mark(st, "planning.choice_timeline", "missing", "missing")

control_cmd_prefixes ==
    << "control.command",
       "control.brake",
       "control.steer",
       "control.longitudinal",
       "control.lateral",
       "control.actuator",
       "control.response" >>

\* variant: partial only when a command event exists
mark_control_command_timeline_cmd_only(st, evs) ==
    LET has_cmd == \E i \in 1..Len(evs) :
                       StartsWithAny(evs[i].type, control_cmd_prefixes)
        has_cmd_t == \E i \in 1..Len(evs) :
                       /\ StartsWithAny(evs[i].type, control_cmd_prefixes)
                       /\ evs[i].t_rel_s # None
    IN  IF has_cmd /\ has_cmd_t
        THEN mark(st, "control.command_timeline", "ok",
                  "control commands/responses (timed) present")
        ELSE IF has_cmd
        THEN mark(st, "control.command_timeline", "partial",
                  "control present but no timed command/response timeline")
        ELSE mark(st, "control.command_timeline", "missing", "missing")

\* variant: ok as soon as any control.* event is timed
mark_control_command_timeline_any_timed(st, evs) ==
    LET has_cmd == \E i \in 1..Len(evs) :
                       StartsWithAny(evs[i].type, control_cmd_prefixes)
        has_cmd_t == has_timed_event(evs, "control.")
        has_policy == has_event_type(evs, "control.aeb_policy")
    IN  IF has_cmd_t
        THEN mark(st, "control.command_timeline", "ok",
                  "control commands/responses (timed) present")
        ELSE IF has_cmd \/ has_policy \/ has_event(evs, "control.")
        THEN mark(st, "control.command_timeline", "partial",
                  "control present but no timed command/response timeline")
        ELSE mark(st, "control.command_timeline", "missing", "missing")

mark_control_command_timeline(st, evs) ==
    LET has_cmd == \E i \in 1..Len(evs) :
                       StartsWithAny(evs[i].type, control_cmd_prefixes)
        has_cmd_t == \E i \in 1..Len(evs) :
                       /\ StartsWithAny(evs[i].type, control_cmd_prefixes)
                       /\ evs[i].t_rel_s # None
        has_policy == has_event_type(evs, "control.aeb_policy")
    IN  IF has_cmd /\ has_cmd_t
        THEN mark(st, "control.command_timeline", "ok",
                  "control commands/responses (timed) present")
        ELSE IF has_cmd \/ has_policy \/ has_event(evs, "control.")
        THEN mark(st, "control.command_timeline", "partial",
                  "control present but no timed command/response timeline")
        ELSE mark(st, "control.command_timeline", "missing", "missing")

mark_human_input_attention(st, evs) ==
    LET has_human == has_event(evs, "human.")
        has_human_t == has_timed_event(evs, "human.")
    IN  IF has_human /\ has_human_t
        THEN mark(st, "human.input_attention", "ok",
                  "human.* timed events present")
        ELSE IF has_human
        THEN mark(st, "human.input_attention", "partial",
                  "human.* present (no timestamp)")
        ELSE mark(st, "human.input_attention", "missing", "missing")

mark_software_version_manifest(st, evs) ==
    IF has_event(evs, "software.version")
    THEN mark(st, "software.version_manifest", "ok",
              "software.version present")
    ELSE mark(st, "software.version_manifest", "missing", "missing")

mark_integrity_tamper_evidence(st, evs) ==
    IF has_event(evs, "integrity.")
    THEN mark(st, "integrity.tamper_evidence", "ok", "integrity.* present")
    ELSE mark(st, "integrity.tamper_evidence", "missing", "missing")

\* returns [cov, exc]; cov is the returned map when exc = "none"
compute_evidence_coverage(evs) ==
    LET s1 == mark_time_base(NoCoverage, evs)
        s2 == mark_authority_mode_timeline(s1, evs)
        s3 == mark_perception_object_timeline(s2, evs)
        s4 == mark_prediction_risk_timeline(s3, evs)
        s5 == mark_planning_choice_timeline(s4, evs)
        s6 == mark_control_command_timeline(s5, evs)
        s7 == mark_human_input_attention(s6, evs)
        s8 == mark_software_version_manifest(s7, evs)
    IN  mark_integrity_tamper_evidence(s8, evs)

-----------------------------------------------------------------------------
(* Scoring *)

RECURSIVE SumScores(_, _)
SumScores(cov, keys) ==
    IF keys = <<>> THEN Zero
    ELSE RatAdd(cov[Head(keys)].score, SumScores(cov, Tail(keys)))

score_simple_average(cov, keys) ==
    IF keys = <<>> THEN Zero
    ELSE RatDiv(SumScores(cov, keys), Rat(Len(keys), 1))

\* the loop of score_weighted: <<s, wsum>> after the first n items
\* variant: s accumulates the score without the weight
RECURSIVE WeightedSums_unweighted(_, _, _)
WeightedSums_unweighted(cov, weights, n) ==
    IF n = 0 THEN <<Zero, Zero>>
    ELSE LET acc == WeightedSums_unweighted(cov, weights, n - 1)
             k == weights[n][1]
             w == weights[n][2]
         IN  IF k \notin DOMAIN cov THEN acc
             ELSE <<RatAdd(acc[1], cov[k].score), RatAdd(acc[2], w)>>

\* variant: the weight of a key that is absent from coverage is still summed
RECURSIVE WeightedSums_all_weights(_, _, _)
WeightedSums_all_weights(cov, weights, n) ==
    IF n = 0 THEN <<Zero, Zero>>
    ELSE LET acc == WeightedSums_all_weights(cov, weights, n - 1)
             k == weights[n][1]
             w == weights[n][2]
         IN  IF k \notin DOMAIN cov THEN <<acc[1], RatAdd(acc[2], w)>>
             ELSE <<RatAdd(acc[1], RatMul(cov[k].score, w)), RatAdd(acc[2], w)>>

RECURSIVE WeightedSums(_, _, _)
WeightedSums(cov, weights, n) ==
    IF n = 0 THEN <<Zero, Zero>>
    ELSE LET acc == WeightedSums(cov, weights, n - 1)
             k == weights[n][1]
             w == weights[n][2]
         IN  IF k \notin DOMAIN cov THEN acc
             ELSE <<RatAdd(acc[1], RatMul(cov[k].score, w)),
                    RatAdd(acc[2], w)>>

score_weighted(cov, weights) ==
    IF weights = <<>> THEN Zero
    ELSE LET acc == WeightedSums(cov, weights, Len(weights))
             s == acc[1]
             wsum == acc[2]
         IN  IF RatGt(wsum, Zero) THEN RatDiv(s, wsum) ELSE Zero

-----------------------------------------------------------------------------
(* derive_metrics: a dict, here a function from the keys that were set to    *)
(* Optional values.                                                          *)

\* variant: the gaps as absolute values
derive_metrics_abs(evs) ==
    LET t_detect == find_earliest_time(evs, "perception.detect")
        t_gaze == find_earliest_time(evs, "human.attention")
        t_steer == find_earliest_time(evs, "human.control_input")
        m0 == [lead_time_detection_s |-> t_detect,
               lead_time_operator_gaze_to_road_s |-> t_gaze,
               lead_time_operator_steer_s |-> t_steer]
        m1 == IF t_detect # None /\ t_gaze # None
              THEN ("gap_detect_to_gaze_s" :> Some(Abs(t_gaze[1] - t_detect[1])))
                       @@ m0
              ELSE m0
        m2 == IF t_gaze # None /\ t_steer # None
              THEN ("gap_gaze_to_steer_s" :> Some(Abs(t_steer[1] - t_gaze[1])))
                       @@ m1
              ELSE m1
        impact == find_event(evs, "impact")
    IN  IF impact # None
        THEN ("impact_speed_mph" :> DictGet(impact[1].data, "speed_mph"))
             @@ ("impact_speed_kmh" :> DictGet(impact[1].data, "speed_kmh"))
             @@ m2
        ELSE m2

derive_metrics(evs) ==
    LET t_detect == find_earliest_time(evs, "perception.detect")
        t_gaze == find_earliest_time(evs, "human.attention")
        t_steer == find_earliest_time(evs, "human.control_input")
        m0 == [lead_time_detection_s |-> t_detect,
               lead_time_operator_gaze_to_road_s |-> t_gaze,
               lead_time_operator_steer_s |-> t_steer]
        m1 == IF t_detect # None /\ t_gaze # None
              THEN ("gap_detect_to_gaze_s" :> Some(t_gaze[1] - t_detect[1]))
                       @@ m0
              ELSE m0
        m2 == IF t_gaze # None /\ t_steer # None
              THEN ("gap_gaze_to_steer_s" :> Some(t_steer[1] - t_gaze[1]))
                       @@ m1
              ELSE m1
        impact == find_event(evs, "impact")
    IN  IF impact # None
        THEN ("impact_speed_mph" :> DictGet(impact[1].data, "speed_mph"))
             @@ ("impact_speed_kmh" :> DictGet(impact[1].data, "speed_kmh"))
             @@ m2
        ELSE m2

-----------------------------------------------------------------------------
(* unanswerable_questions *)

\* the list `questions` as <<id, unit>>; the question text is display only
questions ==
    << <<"Q1", "authority.mode_timeline">>,
       <<"Q2", "perception.object_timeline">>,
       <<"Q3", "prediction.risk_timeline">>,
       <<"Q4", "planning.choice_timeline">>,
       <<"Q5", "control.command_timeline">>,
       <<"Q6", "software.version_manifest">>,
       <<"Q7", "integrity.tamper_evidence">> >>

\* the loop of unanswerable_questions: `out` after the first n questions
RECURSIVE UnanswerableLoop(_, _)
UnanswerableLoop(cov, n) ==
    IF n = 0 THEN <<>>
    ELSE LET out == UnanswerableLoop(cov, n - 1)
             qid == questions[n][1]
             unit == questions[n][2]
             st == cov[unit].status
         IN  IF st # "ok"
             THEN Append(out, [id |-> qid, unit |-> unit, status |-> st,
                               evidence |-> cov[unit].evidence])
             ELSE out

\* the same loop with out.insert(0, ...) in place of out.append(...)
RECURSIVE UnanswerableLoop_prepend(_, _)
UnanswerableLoop_prepend(cov, n) ==
    IF n = 0 THEN <<>>
    ELSE LET out == UnanswerableLoop_prepend(cov, n - 1)
             qid == questions[n][1]
             unit == questions[n][2]
             st == cov[unit].status
         IN  IF st # "ok"
             THEN <<[id |-> qid, unit |-> unit, status |-> st,
                     evidence |-> cov[unit].evidence]>> \o out
             ELSE out

unanswerable_questions_prepend(cov) ==
    UnanswerableLoop_prepend(cov, Len(questions))

\* variant: only the questions whose unit is missing
unanswerable_questions_missing_only(cov) ==
    SelectSeq(UnanswerableLoop(cov, Len(questions)),
              LAMBDA q : q.status = "missing")

unanswerable_questions(cov) == UnanswerableLoop(cov, Len(questions))

-----------------------------------------------------------------------------
(* One run of the report: the values render_report computes from the events, *)
(* given the classifier's result st.  Nothing is computed after a raise.     *)

NotComputed == [a_score |-> None, c_score |-> None, r_core |-> None,
                r_supply |-> None, q_missing |-> None, metrics |-> None]

render_report(st, evs) ==
    IF st.exc # "none" THEN NotComputed
    ELSE [a_score |-> Some(score_simple_average(st.cov, EVIDENCE_UNITS)),
          c_score |-> Some(score_simple_average(st.cov, CRITICAL_UNITS)),
          r_core |-> Some(score_weighted(st.cov, CORE_WEIGHTS)),
          r_supply |-> Some(score_weighted(st.cov, SUPPLY_WEIGHTS)),
          q_missing |-> Some(unanswerable_questions(st.cov)),
          metrics |-> Some(derive_metrics(evs))]

-----------------------------------------------------------------------------
(* Bounds and the inputs the environment draws from: at most MaxEdits edits   *)
(* of one of the initial lists, each edit an event of EditTypes at one of     *)
(* EditTimes.                                                                *)

MaxEdits == 2

EditTimes == {None, Some(-200)}

EditTypes ==
    { "impact", "authority.mode", "perception.detect",
      "perception.classification", "prediction.path", "planning.candidates",
      "control.aeb_policy", "control.steering",
      "human.attention", "human.control_input",
      "software.version", "integrity.hash" }

EditData(type) ==
    IF type = "impact"
    THEN {NoData, [speed_mph |-> Some(25), speed_kmh |-> Some(40)]}
    ELSE {NoData}

\* an event list on which every unit's ok condition holds
saturated_events ==
    << Event(Some(0), "impact", [speed_mph |-> Some(39), speed_kmh |-> None]),
       Event(Some(-900), "authority.mode", NoData),
       Event(Some(-560), "perception.detect", NoData),
       Event(None, "perception.classification", NoData),
       Event(Some(-300), "risk.collision_imminent", NoData),
       Event(Some(-250), "planning.candidates", NoData),
       Event(Some(-120), "control.brake", NoData),
       Event(Some(-100), "human.attention", NoData),
       Event(None, "software.version", NoData),
       Event(None, "integrity.hash", NoData) >>

InitialEvents == {<<>>, sample_uber_atg_ntsb_2018, saturated_events}

RemoveAt(s, i) == SubSeq(s, 1, i - 1) \o SubSeq(s, i + 1, Len(s))

-----------------------------------------------------------------------------
(* The state machine.  A state is an event list together with the report of  *)
(* the program's run on it.  The environment edits the list by one event     *)
(* and the program runs again on the edited list.                            *)

Init ==
    /\ edits = 0
    /\ weight_table = <<>>
    /\ r_weighted = None
    /\ \E evs \in InitialEvents :
          \E st \in {compute_evidence_coverage(evs)} :
              \E r \in {render_report(st, evs)} :
                  /\ events = evs
                  /\ coverage = st.cov
                  /\ exc = st.exc
                  /\ a_score = r.a_score
                  /\ c_score = r.c_score
                  /\ r_core = r.r_core
                  /\ r_supply = r.r_supply
                  /\ q_missing = r.q_missing
                  /\ metrics = r.metrics

\* the list becomes evs and main runs on it
Edit(evs) ==
    /\ edits < MaxEdits
    /\ edits' = edits + 1
    /\ UNCHANGED <<weight_table, r_weighted>>
    /\ \E st \in {compute_evidence_coverage(evs)} :
          \E r \in {render_report(st, evs)} :
              /\ events' = evs
              /\ coverage' = st.cov
              /\ exc' = st.exc
              /\ a_score' = r.a_score
              /\ c_score' = r.c_score
              /\ r_core' = r.r_core
              /\ r_supply' = r.r_supply
              /\ q_missing' = r.q_missing
              /\ metrics' = r.metrics

AppendEvent ==
    \E type \in EditTypes, t \in EditTimes :
        \E data \in EditData(type) :
            \E evs \in {Append(events, Event(t, type, data))} : Edit(evs)

RemoveEvent ==
    \E i \in 1..Len(events) :
        \E evs \in {RemoveAt(events, i)} : Edit(evs)

RetimeEvent ==
    \E i \in 1..Len(events), t \in EditTimes :
        /\ t # events[i].t_rel_s
        /\ \E evs \in {[events EXCEPT ![i].t_rel_s = t]} : Edit(evs)

Next ==
    \/ AppendEvent
    \/ RemoveEvent
    \/ RetimeEvent

Spec == Init /\ [][Next]_vars

-----------------------------------------------------------------------------
(* The same log with its lines in another order: the environment appends an  *)
(* event or moves one event of the list to the front (these moves generate   *)
(* every permutation), and the program runs again.                           *)

MoveEventToFront ==
    \E i \in 2..Len(events) :
        \E evs \in {<<events[i]>> \o RemoveAt(events, i)} : Edit(evs)

NextOrder ==
    \/ AppendEvent
    \/ MoveEventToFront

SpecOrder == Init /\ [][NextOrder]_vars

-----------------------------------------------------------------------------
(* score_weighted called directly, on any coverage map and any weight table. *)
(* The caller builds a coverage map over a few unit keys and a weight table  *)
(* (a dict: keys are distinct and keep their insertion order) and calls      *)
(* score_weighted after each change.                                         *)

MaxWeights == 2

WeightKeys ==
    {"time.base", "software.version_manifest", "integrity.tamper_evidence"}

\* non-negative weights, in hundredths
WeightValues == {[n |-> 0, d |-> 100], [n |-> 30, d |-> 100], [n |-> 70, d |-> 100]}

StatusNames == {"missing", "partial", "ok"}

KeyIndex(table, k) == {i \in 1..Len(table) : table[i][1] = k}

\* table[k] = w
DictSet(table, k, w) ==
    IF KeyIndex(table, k) = {}
    THEN Append(table, <<k, w>>)
    ELSE [i \in 1..Len(table) |-> IF table[i][1] = k THEN <<k, w>> ELSE table[i]]

Call(cov, table) ==
    /\ coverage' = cov
    /\ weight_table' = table
    /\ r_weighted' = Some(score_weighted(cov, table))
    /\ UNCHANGED <<events, exc, a_score, c_score, r_core, r_supply, q_missing,
                   metrics, edits>>

InitWeighted ==
    /\ events = <<>>
    /\ coverage = NoCoverage.cov
    /\ exc = "none"
    /\ a_score = None
    /\ c_score = None
    /\ r_core = None
    /\ r_supply = None
    /\ q_missing = None
    /\ metrics = None
    /\ edits = 0
    /\ weight_table = <<>>
    /\ r_weighted = Some(score_weighted(NoCoverage.cov, <<>>))

SetWeight ==
    \E k \in WeightKeys, w \in WeightValues :
        /\ KeyIndex(weight_table, k) # {} \/ Len(weight_table) < MaxWeights
        /\ \E table \in {DictSet(weight_table, k, w)} : Call(coverage, table)

MarkUnit ==
    \E k \in WeightKeys, status \in StatusNames :
        \E st \in {mark([cov |-> coverage, exc |-> "none"], k, status, "-")} :
            Call(st.cov, weight_table)

NextWeighted ==
    \/ SetWeight
    \/ MarkUnit

SpecWeighted == InitWeighted /\ [][NextWeighted]_vars

-----------------------------------------------------------------------------
(* Properties *)

Status(k) == coverage[k].status

AllStatus(st) == \A k \in Units : Status(k) = st

Half == [n |-> 1, d |-> 2]

QuestionIds(q) == {q[i].id : i \in 1..Len(q)}

\* C1: for every event list, the empty one included, compute_evidence_coverage
\* returns without raising a map whose keys are exactly the nine units, and
\* every entry has status missing, partial or ok with score 0.0, 0.5 or 1.0
\* respectively.
C1_CoverageTotal ==
    /\ exc = "none"
    /\ Cardinality(Units) = 9
    /\ DOMAIN coverage = Units
    /\ \A k \in Units :
          \/ Status(k) = "missing" /\ coverage[k].score = Zero
          \/ Status(k) = "partial" /\ coverage[k].score = Half
          \/ Status(k) = "ok" /\ coverage[k].score = One

\* a run whose map holds all three statuses
C1_Witness ==
    /\ exc = "none"
    /\ edits > 0
    /\ {Status(k) : k \in Units} = {"missing", "partial", "ok"}

\* C2: on the empty event list all nine units are missing, the A-score, the
\* C-score, the core and the supply-chain determinability are 0.0, all seven
\* questions are unanswerable and every value of the metrics mapping is null.
C2_EmptyList ==
    events = <<>> =>
        /\ AllStatus("missing")
        /\ a_score = Some(Zero)
        /\ c_score = Some(Zero)
        /\ r_core = Some(Zero)
        /\ r_supply = Some(Zero)
        /\ q_missing # None
        /\ Len(q_missing[1]) = 7
        /\ QuestionIds(q_missing[1]) = {"Q1", "Q2", "Q3", "Q4", "Q5", "Q6", "Q7"}
        /\ metrics # None
        /\ \A m \in DOMAIN metrics[1] : metrics[1][m] = None

\* the run on a list that the edits have emptied
C2_Witness ==
    /\ events = <<>>
    /\ edits = 2
    /\ metrics # None
    /\ DOMAIN metrics[1] # {}

\* C3: whenever all nine units are ok, the four scores are 1.0 and no
\* question is unanswerable.
C3_Saturated ==
    AllStatus("ok") =>
        /\ a_score = Some(One)
        /\ c_score = Some(One)
        /\ r_core = Some(One)
        /\ r_supply = Some(One)
        /\ q_missing = Some(<<>>)

\* a saturated list other than the initial one
C3_Witness ==
    /\ AllStatus("ok")
    /\ edits > 0
    /\ events # saturated_events

\* C4: on the Uber ATG sample planning is missing, control is partial,
\* version and integrity are missing, and the C-score is 0.125.
C4_SampleCScore ==
    events = sample_uber_atg_ntsb_2018 =>
        /\ Status("planning.choice_timeline") = "missing"
        /\ Status("control.command_timeline") = "partial"
        /\ Status("software.version_manifest") = "missing"
        /\ Status("integrity.tamper_evidence") = "missing"
        /\ c_score = Some([n |-> 1, d |-> 8])

C4_Witness ==
    /\ events = sample_uber_atg_ntsb_2018
    /\ exc = "none"
    /\ c_score # None
    /\ c_score # Some(Zero)

\* C5 as stated: on the Uber ATG sample perception.object_timeline is partial.
C5_SamplePerceptionPartial ==
    events = sample_uber_atg_ntsb_2018 =>
        Status("perception.object_timeline") = "partial"

\* C5: on the Uber ATG sample (perception.detect timed at -5.6 s,
\* perception.classification present without timestamp)
\* perception.object_timeline is classified ok, on the evidence
\* "detect(timed) + classification present".
C5_SamplePerceptionOk ==
    events = sample_uber_atg_ntsb_2018 =>
        /\ Status("perception.object_timeline") = "ok"
        /\ coverage["perception.object_timeline"].evidence
               = "detect(timed) + classification present"

C5_Witness ==
    /\ events = sample_uber_atg_ntsb_2018
    /\ \E i \in 1..Len(events) :
          /\ events[i].type = "perception.classification"
          /\ events[i].t_rel_s = None
    /\ "perception.object_timeline" \in DOMAIN coverage

\* C6: on the Uber ATG sample exactly 6 of the 7 questions are unanswerable.
C6_SampleUnanswerable ==
    events = sample_uber_atg_ntsb_2018 =>
        /\ q_missing # None
        /\ Len(q_missing[1]) = 6
        /\ Cardinality(QuestionIds(q_missing[1])) = 6

C6_Witness ==
    /\ events = sample_uber_atg_ntsb_2018
    /\ q_missing # None
    /\ "Q2" \notin QuestionIds(q_missing[1])

IsCriticalType(type) ==
    \/ StartsWith(type, "planning.")
    \/ StartsWith(type, "control.")
    \/ StartsWith(type, "software.version")
    \/ StartsWith(type, "integrity.")

CriticalEvents(evs) == SelectSeq(evs, LAMBDA e : IsCriticalType(e.type))

\* C7: two event lists that differ only in events whose type starts with
\* none of planning., control., software.version, integrity. (such events
\* added, removed or re-timed) have the same C-score.
C7_CScoreCriticalOnly ==
    [][CriticalEvents(events') = CriticalEvents(events) => c_score' = c_score]_vars

\* a list that differs from the sample in non-critical events only
C7_Witness ==
    /\ edits > 0
    /\ events # sample_uber_atg_ntsb_2018
    /\ CriticalEvents(events) = CriticalEvents(sample_uber_atg_ntsb_2018)
    /\ Status("time.base") # "ok"
    /\ c_score = Some([n |-> 1, d |-> 8])

\* big is small with one more event, at any position
OneMore(small, big) ==
    /\ Len(big) = Len(small) + 1
    /\ \E i \in 1..Len(big) : RemoveAt(big, i) = small

Unanswerable == Len(q_missing[1])

\* C8: adding events never increases the number of unanswerable questions
\* and removing events never decreases it; the list never has more than 7
\* entries and no two entries share an id.
C8_UnanswerableMonotone ==
    [][/\ OneMore(events, events') => Unanswerable' <= Unanswerable
       /\ OneMore(events', events) => Unanswerable' >= Unanswerable
       /\ Unanswerable' <= 7
       /\ Cardinality(QuestionIds(q_missing[1]')) = Unanswerable']_vars

\* the sample plus one event, with fewer unanswerable questions
C8_Witness ==
    /\ OneMore(sample_uber_atg_ntsb_2018, events)
    /\ q_missing # None
    /\ Len(q_missing[1]) < 6

QuestionIndex(id) == CHOOSE n \in 1..Len(questions) : questions[n][1] = id

NotOkQuestions ==
    {n \in 1..Len(questions) : Status(questions[n][2]) # "ok"}

\* C9: the unanswerable list holds exactly the questions whose backing unit
\* is not ok, each once, in declaration order, each with the backing unit's
\* status and evidence; time.base and human.input_attention play no part.
C9_UnanswerableExact ==
    /\ q_missing # None
    /\ LET q == q_missing[1]
       IN  /\ \A i \in 1..Len(q) : q[i].id \in {"Q1", "Q2", "Q3", "Q4", "Q5", "Q6", "Q7"}
           /\ {QuestionIndex(q[i].id) : i \in 1..Len(q)} = NotOkQuestions
           /\ Len(q) = Cardinality(NotOkQuestions)
           /\ \A i, j \in 1..Len(q) :
                 i < j => QuestionIndex(q[i].id) < QuestionIndex(q[j].id)
           /\ \A i \in 1..Len(q) :
                 /\ q[i].unit = questions[QuestionIndex(q[i].id)][2]
                 /\ q[i].unit \notin {"time.base", "human.input_attention"}
                 /\ q[i].status = Status(q[i].unit)
                 /\ q[i].evidence = coverage[q[i].unit].evidence

\* some but not all questions unanswerable, a partial one among them, while
\* time.base and human.input_attention are not ok
C9_Witness ==
    /\ q_missing # None
    /\ Len(q_missing[1]) \in 2..6
    /\ \E i \in 1..Len(q_missing[1]) : q_missing[1][i].status = "partial"
    /\ Status("time.base") # "ok"
    /\ Status("human.input_attention") # "ok"

\* the non-null times of the events whose type starts with prefix
TimesOf(prefix) ==
    {events[i].t_rel_s[1] : i \in {j \in 1..Len(events) :
         StartsWith(events[j].type, prefix) /\ events[j].t_rel_s # None}}

Least(S) == CHOOSE x \in S : \A y \in S : x <= y

\* C10: gap_detect_to_gaze_s is present exactly when a timed
\* perception.detect* and a timed human.attention* event exist, and is then
\* the least attention time minus the least detect time (signed);
\* gap_gaze_to_steer_s likewise from human.control_input* and
\* human.attention*; least is over all matching timed events.
C10_Gaps ==
    /\ metrics # None
    /\ LET m == metrics[1]
           D == TimesOf("perception.detect")
           G == TimesOf("human.attention")
           S == TimesOf("human.control_input")
       IN  /\ "gap_detect_to_gaze_s" \in DOMAIN m <=> (D # {} /\ G # {})
           /\ "gap_detect_to_gaze_s" \in DOMAIN m =>
                 m["gap_detect_to_gaze_s"] = Some(Least(G) - Least(D))
           /\ "gap_gaze_to_steer_s" \in DOMAIN m <=> (G # {} /\ S # {})
           /\ "gap_gaze_to_steer_s" \in DOMAIN m =>
                 m["gap_gaze_to_steer_s"] = Some(Least(S) - Least(G))

\* a negative gap whose earliest steer input is the last event of the list,
\* after a later one, while the other gap is absent
C10_Witness ==
    /\ metrics # None
    /\ "gap_gaze_to_steer_s" \in DOMAIN metrics[1]
    /\ metrics[1]["gap_gaze_to_steer_s"][1] < 0
    /\ "gap_detect_to_gaze_s" \notin DOMAIN metrics[1]
    /\ Len(events) > 1
    /\ events[Len(events)].type = "human.control_input"
    /\ events[Len(events)].t_rel_s = Some(Least(TimesOf("human.control_input")))
    /\ Cardinality(TimesOf("human.control_input")) > 1

\* the positions of the weight table whose key is present in coverage
PresentWeights == {i \in 1..Len(weight_table) : weight_table[i][1] \in DOMAIN coverage}

\* the sum of weight over the positions S, in hundredths
RECURSIVE WeightSum(_)
WeightSum(S) ==
    IF S = {} THEN 0
    ELSE LET i == CHOOSE j \in S : TRUE
             w == weight_table[i][2]
         IN  (w.n * 100) \div w.d + WeightSum(S \ {i})

\* the sum of score*weight over the positions S, in two-hundredths
RECURSIVE ScoreWeightSum(_)
ScoreWeightSum(S) ==
    IF S = {} THEN 0
    ELSE LET i == CHOOSE j \in S : TRUE
             w == weight_table[i][2]
             sc == coverage[weight_table[i][1]].score
         IN  ((2 * sc.n) \div sc.d) * ((w.n * 100) \div w.d)
                 + ScoreWeightSum(S \ {i})

\* C11: score_weighted(coverage, weights) returns sum(score*weight)/sum(weight)
\* taken only over the weight-table keys that are present in coverage, a value
\* in [0,1] for non-negative weights, and returns exactly 0 when the table is
\* empty, when no weight key is present in coverage, or when the restricted
\* weight sum is 0.
C11_ScoreWeighted ==
    /\ r_weighted # None
    /\ LET x == r_weighted[1]
           num == ScoreWeightSum(PresentWeights)
           den == WeightSum(PresentWeights)
       IN  /\ x.d > 0
           /\ den > 0 => x.n * 2 * den = num * x.d
           /\ 0 <= x.n /\ x.n <= x.d
           /\ (weight_table = <<>> \/ PresentWeights = {} \/ den = 0) => x = Zero

\* a table with one key present in coverage and one absent, and a result
\* strictly between 0 and 1
C11_Witness ==
    /\ r_weighted # None
    /\ PresentWeights # {}
    /\ PresentWeights # 1..Len(weight_table)
    /\ \A i \in 1..Len(weight_table) : weight_table[i][2].n > 0
    /\ r_weighted[1].n > 0
    /\ r_weighted[1].n < r_weighted[1].d

\* the seven command prefixes, as the claim lists them
CommandPrefixes ==
    {"control.command", "control.brake", "control.steer", "control.longitudinal",
     "control.lateral", "control.actuator", "control.response"}

IsCommand(e) == \E p \in CommandPrefixes : StartsWith(e.type, p)

IsControl(e) == StartsWith(e.type, "control.")

TimedCommand == \E i \in 1..Len(events) :
                    IsCommand(events[i]) /\ events[i].t_rel_s # None

AnyControl == \E i \in 1..Len(events) : IsControl(events[i])

\* C12: for every event list, control.command_timeline is ok iff some event
\* whose type starts with one of the seven command prefixes has a non-null
\* timestamp; it is missing iff no event type starts with control.; it is
\* partial in every other case, in particular when the only timed control.*
\* events are non-command ones such as control.aeb_policy.
C12_ControlStatus ==
    /\ Status("control.command_timeline") = "ok" <=> TimedCommand
    /\ Status("control.command_timeline") = "missing" <=> ~AnyControl
    /\ Status("control.command_timeline") = "partial"
           <=> (AnyControl /\ ~TimedCommand)
    /\ (/\ \E i \in 1..Len(events) :
               IsControl(events[i]) /\ events[i].t_rel_s # None
        /\ \A i \in 1..Len(events) :
               (IsControl(events[i]) /\ events[i].t_rel_s # None)
                   => ~IsCommand(events[i]))
           => Status("control.command_timeline") = "partial"

\* the only timed control.* event is a control.aeb_policy, next to an untimed
\* command event, and the unit is partial
C12_Witness ==
    /\ \E i \in 1..Len(events) :
          events[i].type = "control.aeb_policy" /\ events[i].t_rel_s # None
    /\ \E i \in 1..Len(events) :
          IsCommand(events[i]) /\ events[i].t_rel_s = None
    /\ ~TimedCommand
    /\ Status("control.command_timeline") = "partial"

SameEvent(e, f) ==
    /\ e.t_rel_s = f.t_rel_s
    /\ e.type = f.type
    /\ DOMAIN e.data = DOMAIN f.data
    /\ \A k \in DOMAIN e.data : e.data[k] = f.data[k]

Count(evs, e) == Cardinality({i \in 1..Len(evs) : SameEvent(evs[i], e)})

IsPermutation(a, b) ==
    /\ Len(a) = Len(b)
    /\ \A i \in 1..Len(a) : Count(a, a[i]) = Count(b, a[i])

TimeMetricKeys ==
    {"lead_time_detection_s", "lead_time_operator_gaze_to_road_s",
     "lead_time_operator_steer_s", "gap_detect_to_gaze_s", "gap_gaze_to_steer_s"}

\* C13: the classification does not depend on input order: a list and any
\* permutation of it get the same status for all nine units, the same four
\* scores and the same unanswerable-question list, and derive_metrics yields
\* the same three earliest-time values and the same two gap values.
C13_OrderIndependent ==
    [][IsPermutation(events, events') =>
          /\ exc' = exc
          /\ DOMAIN coverage' = DOMAIN coverage
          /\ \A k \in DOMAIN coverage : coverage'[k].status = coverage[k].status
          /\ a_score' = a_score
          /\ c_score' = c_score
          /\ r_core' = r_core
          /\ r_supply' = r_supply
          /\ q_missing' = q_missing
          /\ (metrics' = None) <=> (metrics = None)
          /\ metrics # None =>
                \A key \in TimeMetricKeys :
                    /\ key \in DOMAIN metrics'[1] <=> key \in DOMAIN metrics[1]
                    /\ key \in DOMAIN metrics[1] =>
                          metrics'[1][key] = metrics[1][key]]_vars

\* a reordered list: a steer input at -2.00 s that was logged last now heads
\* the list, ahead of the later steer input it was appended after, and it
\* gives the earliest steer time and the gaze-to-steer gap
C13_Witness ==
    /\ Len(events) > Len(sample_uber_atg_ntsb_2018)
    /\ events[1].type = "human.control_input"
    /\ events[1].t_rel_s = Some(-200)
    /\ \E i \in 2..Len(events) :
          /\ events[i].type = "human.control_input"
          /\ events[i].t_rel_s # None
          /\ events[i].t_rel_s[1] > -200
    /\ metrics # None
    /\ metrics[1]["lead_time_operator_steer_s"] = Some(-200)
    /\ "gap_gaze_to_steer_s" \in DOMAIN metrics[1]

=============================================================================
